---- MODULE Spec2Model ----
(***************************************************************************)
(* Call-session and media-stream lifecycle of the Twilio voice agent       *)
(* (src/index-websocket.js; src/index.js is the same server without the    *)
(* media-stream registry).                                                 *)
(*                                                                         *)
(* JavaScript strings are modelled as sequences of one-character strings,  *)
(* the value undefined as the one-element tuple Undefined.                 *)
(***************************************************************************)
EXTENDS Integers, Sequences, FiniteSets, TLC

\* ------------------------------------------------------------------ bounds
MaxSockets == 2      \* streaming connections accepted during a run
MaxFrames  == 1      \* media frames buffered per stream session
MaxTime    == 1      \* readings of the wall clock: 0..MaxTime
MaxBuffered == 3     \* media frames per session where their order is followed

\* ------------------------------------------------------------ JS values
Undefined == <<"undefined">>
EmptyStr  == <<>>

\* truthiness of a string-or-undefined value, as tested by `if (x)`
Truthy(v) == v # Undefined /\ v # EmptyStr

\* template-literal interpolation `${v}`
ToStr(v) == IF v = Undefined
            THEN <<"u", "n", "d", "e", "f", "i", "n", "e", "d">>
            ELSE v

\* ---------------------------------------------------------------- inputs
CA1 == <<"C", "A", "1">>
CA2 == <<"C", "A", "2">>
CallSids   == {CA1, CA2}
BodySids   == CallSids \cup {Undefined}          \* req.body.CallSid
Froms      == {<<"+", "1">>, <<"+", "2">>}       \* req.body.From
Tos        == {<<"+", "9">>}                     \* req.body.To
Speeches   == {Undefined, EmptyStr, <<"h", "i">>}   \* req.body.SpeechResult
DigitsIn   == {Undefined, EmptyStr, <<"5">>}        \* req.body.Digits
Payloads   == {<<"f">>}                          \* data.media.payload
Sockets    == 1..MaxSockets
StreamFrom     == <<"+", "1">>                   \* req.body.From beside streams
StreamSpeeches == {<<"h", "i">>}                 \* req.body.SpeechResult beside streams

\* ------------------------------------------- Map (insertion-ordered)
\* A JS Map is a sequence of [key, val] entries with pairwise distinct keys.
MapKeys(m) == {m[i].key : i \in 1..Len(m)}

MapHas(m, k) == k \in MapKeys(m)

MapIndex(m, k) == CHOOSE i \in 1..Len(m) : m[i].key = k

MapGet(m, k) == m[MapIndex(m, k)].val

MapSet(m, k, v) ==
    IF MapHas(m, k)
    THEN [m EXCEPT ![MapIndex(m, k)] = [key |-> k, val |-> v]]
    ELSE Append(m, [key |-> k, val |-> v])

MapDelete(m, k) ==
    IF MapHas(m, k)
    THEN LET i == MapIndex(m, k)
         IN  SubSeq(m, 1, i - 1) \o SubSeq(m, i + 1, Len(m))
    ELSE m

VARIABLES
    callSessions,   \* voiceAgent.callSessions : CallSid -> {from,to,startTime,active}
    mediaStreams,   \* voiceAgent.mediaStreams : callSid -> {websocket,startTime,audioBuffer}
    sockets,        \* the WebSocket objects handed to wss.on('connection')
    now,            \* the wall clock read by new Date()
    deploymentUrl,  \* process.env.DEPLOYMENT_URL, fixed when the process starts
    config,         \* config.{groq,cartesia,inkWhisper}.apiKey, fixed likewise
    httpOnly,       \* the index.js server given the same webhook requests:
                    \* its voiceAgent.callSessions and the response it sent last
    lastEvent,      \* the request or socket event handled last
    response        \* the HTTP response sent for it (NoResponse for socket events)

vars == <<callSessions, mediaStreams, sockets, now, deploymentUrl, config, httpOnly,
          lastEvent, response>>

\* ------------------------------------------------------------- WebSocket
\* One accepted connection as the `ws` object the handlers close over.
\* closeCalls counts invocations of ws.close(); staleCloses counts those made
\* when the handle was already CLOSED; sent holds the callSid of each `connected`
\* message sent on it; stopped records that a stop message was handled on it.
FreeSocket ==
    [readyState |-> "FREE", callSid |-> Undefined,
     closeCalls |-> 0, staleCloses |-> 0, sent |-> <<>>, stopped |-> FALSE]

\* ws.close(): starts the closing handshake of an open connection
WebSocketClose(s, w) ==
    [s EXCEPT ![w] =
        [@ EXCEPT !.closeCalls  = @ + 1,
                  !.staleCloses = IF s[w].readyState = "CLOSED" THEN @ + 1 ELSE @,
                  !.readyState  = IF @ = "OPEN" THEN "CLOSING" ELSE @]]

\* an acknowledgment sent twice
WebSocketSendAck_Twice(s, w, callSid) ==
    [s EXCEPT ![w].sent = Append(Append(@, callSid), callSid)]

\* ws.send(JSON.stringify({event: 'connected', callSid}))
WebSocketSendAck(s, w, callSid) == [s EXCEPT ![w].sent = Append(@, callSid)]

\* -------------------------------------------------------- AIModelManager
\* What a helper returns or does: a value, null, or a rejection of its promise.
Null   == <<"null">>
Raised == <<"throws">>

\* What the outbound fetch of a helper comes to. kind "reject": fetch rejects
\* (no connection, no fetch); "badjson": a response whose body response.json()
\* rejects; "json": a response whose body parses, field being what the helper
\* reads from it (Undefined when the body lacks it). NotSent: no request made.
FetchOutcome(kind, status, field) == [kind |-> kind, status |-> status, field |-> field]
NotSent == FetchOutcome("none", "0", Undefined)
HttpStatuses == {"200", "500"}
Completions  == {Undefined, EmptyStr, <<"o", "k">>}
FetchOutcomes ==
    {FetchOutcome("reject", "0", Undefined)}
    \cup {FetchOutcome("badjson", st, Undefined) : st \in HttpStatuses}
    \cup {FetchOutcome("json", "200", f) : f \in Completions}
    \cup {FetchOutcome("json", "500", Undefined)}

\* generateWithKimi without its try/catch
generateWithKimi_NoCatch(apiKey, userInput, out) ==
    IF ~Truthy(apiKey) THEN Null
    ELSE IF out.kind \in {"reject", "badjson"} THEN Raised
    ELSE IF Truthy(out.field) THEN out.field ELSE Null

\* generateWithKimi(userInput): data.choices?.[0]?.message?.content || null
generateWithKimi(apiKey, userInput, out) ==
    IF ~Truthy(apiKey) THEN Null
    ELSE IF out.kind \in {"reject", "badjson"} THEN Null
    ELSE IF Truthy(out.field) THEN out.field ELSE Null

\* synthesizeWithSonic3(text): the Response object itself, whatever its status
synthesizeWithSonic3(apiKey, text, out) ==
    IF ~Truthy(apiKey) THEN Null
    ELSE IF out.kind = "reject" THEN Null
    ELSE <<"Response", out.status>>

\* transcribeWithInkWhisper(audioData): data.text || null
transcribeWithInkWhisper(apiKey, audioData, out) ==
    IF ~Truthy(apiKey) THEN Null
    ELSE IF out.kind \in {"reject", "badjson"} THEN Null
    ELSE IF Truthy(out.field) THEN out.field ELSE Null

\* ------------------------------------------------------------ VoiceAgent
handleIncoming_Appends(cs, callSid, from, to, t) ==
    Append(cs, [key |-> callSid,
                val |-> [from |-> from, to |-> to, startTime |-> t, active |-> TRUE]])

handleIncoming(cs, callSid, from, to, t) ==
    MapSet(cs, callSid, [from |-> from, to |-> to, startTime |-> t, active |-> TRUE])

\* endCall that forgets to clear the flag
endCall_KeepsActive(cs, callSid) == cs

\* endCall that stores an ended record for an identifier it does not know
endCall_Upserts(cs, callSid) ==
    IF MapHas(cs, callSid)
    THEN [cs EXCEPT ![MapIndex(cs, callSid)].val.active = FALSE]
    ELSE Append(cs, [key |-> callSid,
                     val |-> [from |-> Undefined, to |-> Undefined,
                              startTime |-> 0, active |-> FALSE]])

endCall(cs, callSid) ==
    IF MapHas(cs, callSid)
    THEN [cs EXCEPT ![MapIndex(cs, callSid)].val.active = FALSE]
    ELSE cs

\* a registry that holds the newest session only
registerMediaStream_Single(ms, callSid, websocket, t) ==
    << [key |-> callSid,
        val |-> [websocket |-> websocket, startTime |-> t, audioBuffer |-> <<>>]] >>

registerMediaStream(ms, callSid, websocket, t) ==
    MapSet(ms, callSid, [websocket |-> websocket, startTime |-> t, audioBuffer |-> <<>>])

\* closeMediaStream without this.mediaStreams.delete(callSid)
closeMediaStream_NoDelete(ms, s, callSid) ==
    [streams |-> ms,
     socks   |-> IF MapHas(ms, callSid)
                 THEN WebSocketClose(s, MapGet(ms, callSid).websocket)
                 ELSE s]

\* the streams map and the sockets after closeMediaStream(callSid)
closeMediaStream(ms, s, callSid) ==
    [streams |-> MapDelete(ms, callSid),
     socks   |-> IF MapHas(ms, callSid)
                 THEN WebSocketClose(s, MapGet(ms, callSid).websocket)
                 ELSE s]

\* a push that falls back to the oldest session when callSid has none
pushAudio_Fallback(ms, callSid, audioData) ==
    IF MapHas(ms, callSid)
    THEN [ms EXCEPT ![MapIndex(ms, callSid)].val.audioBuffer = Append(@, audioData)]
    ELSE IF ms # <<>>
    THEN [ms EXCEPT ![1].val.audioBuffer = Append(@, audioData)]
    ELSE ms

\* a push that puts the frame in front (unshift)
pushAudio_Unshift(ms, callSid, audioData) ==
    IF MapHas(ms, callSid)
    THEN [ms EXCEPT ![MapIndex(ms, callSid)].val.audioBuffer = <<audioData>> \o @]
    ELSE ms

\* stream.audioBuffer.push(audioData) on the session getMediaStream returns
pushAudio(ms, callSid, audioData) ==
    IF MapHas(ms, callSid)
    THEN [ms EXCEPT ![MapIndex(ms, callSid)].val.audioBuffer = Append(@, audioData)]
    ELSE ms

\* --------------------------------------------------------------- strings
\* pat occurs in str at position i
OccursAt(str, pat, i) ==
    /\ i + Len(pat) - 1 <= Len(str)
    /\ SubSeq(str, i, i + Len(pat) - 1) = pat

\* str.replace(pat, by): the first occurrence of pat replaced
Replace(str, pat, by) ==
    IF \E i \in 1..Len(str) : OccursAt(str, pat, i)
    THEN LET i == CHOOSE i \in 1..Len(str) :
                     /\ OccursAt(str, pat, i)
                     /\ \A j \in 1..(i - 1) : ~OccursAt(str, pat, j)
         IN  SubSeq(str, 1, i - 1) \o by \o SubSeq(str, i + Len(pat), Len(str))
    ELSE str

\* request.url of a request sent to url: what follows the host, "/" if nothing
UrlPath(url) ==
    LET sep   == <<":", "/", "/">>
        from  == IF \E i \in 1..Len(url) : OccursAt(url, sep, i)
                 THEN (CHOOSE i \in 1..Len(url) :
                          /\ OccursAt(url, sep, i)
                          /\ \A j \in 1..(i - 1) : ~OccursAt(url, sep, j)) + 3
                 ELSE 1
        slash == {i \in from..Len(url) : url[i] = "/"}
    IN  IF slash = {} THEN <<"/">>
        ELSE SubSeq(url, CHOOSE i \in slash : \A j \in slash : i <= j, Len(url))

\* ------------------------------------------------------------- responses
Verb(v, arg, nested) == [verb |-> v, arg |-> arg, nested |-> nested]
Say(text)      == Verb("Say", text, <<>>)
Hangup         == Verb("Hangup", <<>>, <<>>)
Redirect(url)  == Verb("Redirect", <<url>>, <<>>)

TwiML(doc)  == [status |-> 200, type |-> "text/xml", body |-> doc]
NoResponse  == [status |-> 0, type |-> "", body |-> <<>>]

\* the error-handling middleware: res.status(500).json({error, message})
ErrorResponse(message) ==
    [status |-> 500, type |-> "application/json",
     body |-> <<[error |-> "Internal server error", message |-> message]>>]

\* the document without the trailing twiml.redirect
generateTwiML_NoRedirect(callSid, speechResult) ==
    << IF Truthy(speechResult)
       THEN Say(<<"You said: ">> \o speechResult)
       ELSE Say(<<"Welcome to the voice agent. Please speak after the beep.">>),
       Verb("Gather", <<"/voice/handle-input", "numDigits=1", "method=POST",
                        "timeout=3", "speechTimeout=auto">>,
            <<Say(<<"Please say something or press a key.">>)>>) >>

generateTwiML(callSid, speechResult) ==
    << IF Truthy(speechResult)
       THEN Say(<<"You said: ">> \o speechResult)
       ELSE Say(<<"Welcome to the voice agent. Please speak after the beep.">>),
       Verb("Gather", <<"/voice/handle-input", "numDigits=1", "method=POST",
                        "timeout=3", "speechTimeout=auto">>,
            <<Say(<<"Please say something or press a key.">>)>>),
       Redirect("/voice/end-call") >>

\* the branches of POST /voice/handle-input with Digits tested first
InputSay_DigitsFirst(SpeechResult, Digits) ==
    IF Truthy(Digits)             THEN Say(<<"You pressed: ">> \o Digits)
    ELSE IF Truthy(SpeechResult)  THEN Say(<<"I understood: ">> \o SpeechResult)
    ELSE Say(<<"No input received. Goodbye!">>)

\* the utterance POST /voice/handle-input chooses
InputSay(SpeechResult, Digits) ==
    IF Truthy(SpeechResult)  THEN Say(<<"I understood: ">> \o SpeechResult)
    ELSE IF Truthy(Digits)   THEN Say(<<"You pressed: ">> \o Digits)
    ELSE Say(<<"No input received. Goodbye!">>)

\* the listing without .filter(([_, session]) => session.active)
ActiveCalls_NoFilter(cs) ==
    [i \in 1..Len(cs) |->
        [callSid |-> cs[i].key, from |-> cs[i].val.from, to |-> cs[i].val.to,
         startTime |-> cs[i].val.startTime, active |-> cs[i].val.active]]

\* GET /voice/calls: the entries with session.active, in Map order
RECURSIVE ActiveCalls(_)
ActiveCalls(cs) ==
    IF cs = <<>> THEN <<>>
    ELSE LET e == Head(cs)
             rest == ActiveCalls(Tail(cs))
         IN  IF e.val.active
             THEN <<[callSid |-> e.key, from |-> e.val.from, to |-> e.val.to,
                     startTime |-> e.val.startTime, active |-> e.val.active]>> \o rest
             ELSE rest

\* ------------------------------------------------------------- index.js
\* The server of src/index.js: its call store and the response it sent last.
HttpServer(cs, resp) == [callSessions |-> cs, response |-> resp]

\* res.type('text/xml'); res.send(twiml.toString())
HttpTwiML(doc) == [status |-> 200, type |-> "text/xml", body |-> doc]

\* index.js handleIncoming that keeps the record an identifier already has
HttpHandleIncoming_KeepsExisting(cs, callSid, from, to, t) ==
    IF MapHas(cs, callSid) THEN cs
    ELSE MapSet(cs, callSid, [from |-> from, to |-> to, startTime |-> t, active |-> TRUE])

\* index.js VoiceAgent.handleIncoming
HttpHandleIncoming(cs, callSid, from, to, t) ==
    MapSet(cs, callSid, [from |-> from, to |-> to, startTime |-> t, active |-> TRUE])

\* index.js VoiceAgent.endCall
HttpEndCall(cs, callSid) ==
    IF MapHas(cs, callSid)
    THEN [cs EXCEPT ![MapIndex(cs, callSid)].val.active = FALSE]
    ELSE cs

\* index.js VoiceAgent.generateTwiML
HttpGenerateTwiML(callSid, speechResult) ==
    << IF Truthy(speechResult)
       THEN Say(<<"You said: ">> \o speechResult)
       ELSE Say(<<"Welcome to the voice agent. Please speak after the beep.">>),
       Verb("Gather", <<"/voice/handle-input", "numDigits=1", "method=POST",
                        "timeout=3", "speechTimeout=auto">>,
            <<Say(<<"Please say something or press a key.">>)>>),
       Redirect("/voice/end-call") >>

\* index.js: the entries with session.active, in Map order
RECURSIVE HttpActiveCalls(_)
HttpActiveCalls(cs) ==
    IF cs = <<>> THEN <<>>
    ELSE LET e == Head(cs)
             rest == HttpActiveCalls(Tail(cs))
         IN  IF e.val.active
             THEN <<[callSid |-> e.key, from |-> e.val.from, to |-> e.val.to,
                     startTime |-> e.val.startTime, active |-> e.val.active]>> \o rest
             ELSE rest

\* index.js POST /voice/incoming
HttpIncoming(srv, CallSid, From, To, t) ==
    HttpServer(HttpHandleIncoming(srv.callSessions, CallSid, From, To, t),
               HttpTwiML(HttpGenerateTwiML(CallSid, Undefined)))

\* index.js POST /voice/handle-input
HttpHandleInput(srv, CallSid, SpeechResult, Digits) ==
    HttpServer(srv.callSessions,
               HttpTwiML(<< IF Truthy(SpeechResult)
                            THEN Say(<<"I understood: ">> \o SpeechResult)
                            ELSE IF Truthy(Digits)
                            THEN Say(<<"You pressed: ">> \o Digits)
                            ELSE Say(<<"No input received. Goodbye!">>),
                            Hangup >>))

\* index.js POST /voice/end-call
HttpEndCallRoute(srv, CallSid) ==
    HttpServer(HttpEndCall(srv.callSessions, CallSid),
               HttpTwiML(<<Say(<<"Thank you for calling. Goodbye!">>), Hangup>>))

\* index.js POST /voice/status-callback: res.status(200).end()
HttpStatusCallback(srv, CallSid, CallStatus) ==
    HttpServer(srv.callSessions, [status |-> 200, type |-> "", body |-> <<>>])

\* index.js GET /voice/calls
HttpListCalls(srv) ==
    LET activeCalls == HttpActiveCalls(srv.callSessions)
    IN  HttpServer(srv.callSessions,
                   [status |-> 200, type |-> "application/json",
                    body |-> <<[activeCalls |-> Len(activeCalls),
                                calls |-> activeCalls]>>])

\* ------------------------------------------------------- upgrade routing
AlphaNum ==
    {"A", "B", "C", "D", "E", "F", "G", "H", "I", "J", "K", "L", "M",
     "N", "O", "P", "Q", "R", "S", "T", "U", "V", "W", "X", "Y", "Z",
     "a", "b", "c", "d", "e", "f", "g", "h", "i", "j", "k", "l", "m",
     "n", "o", "p", "q", "r", "s", "t", "u", "v", "w", "x", "y", "z",
     "0", "1", "2", "3", "4", "5", "6", "7", "8", "9"}

MediaPrefix == <<"/", "m", "e", "d", "i", "a", "/">>
NoMatch == <<"null">>

\* the match without the character class: /^\/media\/(.+)$/
MatchMedia_AnyChars(pathname) ==
    LET n == Len(MediaPrefix)
    IN  IF /\ Len(pathname) > n
           /\ SubSeq(pathname, 1, n) = MediaPrefix
        THEN SubSeq(pathname, n + 1, Len(pathname))
        ELSE NoMatch

\* pathname.match(/^\/media\/([A-Za-z0-9]+)$/): the captured group or NoMatch
MatchMedia(pathname) ==
    LET n == Len(MediaPrefix)
    IN  IF /\ Len(pathname) > n
           /\ SubSeq(pathname, 1, n) = MediaPrefix
           /\ \A i \in (n + 1)..Len(pathname) : pathname[i] \in AlphaNum
        THEN SubSeq(pathname, n + 1, Len(pathname))
        ELSE NoMatch

Paths ==
    {MediaPrefix \o CA1, MediaPrefix \o CA2, MediaPrefix,
     MediaPrefix \o <<"C", "-", "1">>, <<"/", "v", "/">> \o CA1}

\* stream protocol messages: data.event and data.media?.payload;
\* "#" stands for a message JSON.parse rejects
Messages ==
    {[event |-> <<e>>, payload |-> Undefined] : e \in {"start", "stop", "mark", "#"}}
    \cup {[event |-> <<"media">>, payload |-> p] : p \in Payloads \cup {Undefined}}

Statuses == {<<"completed">>}                    \* req.body.CallStatus (terminal)

ApiKey     == <<"k">>                            \* a credential
ApiKeys    == {Undefined, EmptyStr, ApiKey}      \* process.env.*_API_KEY
DashedSid  == <<"C", "-", "1">>                  \* a CallSid with a dash
SetupSids  == CallSids \cup {DashedSid}          \* req.body.CallSid of a setup request
DeployedUrl == <<"h", "t", "t", "p", "s", ":", "/", "/", "x">>   \* DEPLOYMENT_URL

\* ------------------------------------------------------------------ Init
Event(op, callSid, ws, args) == [op |-> op, callSid |-> callSid, ws |-> ws, args |-> args]

\* the config object with the three credentials
Config(groq, cartesia, inkWhisper) ==
    [groq |-> groq, cartesia |-> cartesia, inkWhisper |-> inkWhisper]

\* a deployment with every credential set
Configured == Config(ApiKey, ApiKey, ApiKey)

\* the state once the server listens, started with DEPLOYMENT_URL = url and
\* the credentials cfg
Listening(url, cfg) ==
    /\ callSessions = <<>>
    /\ mediaStreams = <<>>
    /\ sockets = [w \in Sockets |-> FreeSocket]
    /\ now = 0
    /\ deploymentUrl = url
    /\ config = cfg
    /\ httpOnly = HttpServer(<<>>, NoResponse)
    /\ lastEvent = Event("listen", Undefined, 0, <<>>)
    /\ response = NoResponse

\* the same with every credential set
Started(url) == Listening(url, Configured)

\* a deployment with DEPLOYMENT_URL set
Init == Started(DeployedUrl)

\* a deployment with or without DEPLOYMENT_URL
InitAnyEnv == \E url \in {DeployedUrl, Undefined} : Started(url)

\* time passes between two readings of new Date()
Tick ==
    /\ now < MaxTime
    /\ now' = now + 1
    /\ UNCHANGED <<callSessions, mediaStreams, sockets, deploymentUrl, config, httpOnly, lastEvent, response>>

\* -------------------------------------------------------------- webhooks
\* POST /voice/incoming
IncomingPaired(CallSid, From, To, p) ==
    /\ httpOnly' = p
    /\ callSessions' = handleIncoming(callSessions, CallSid, From, To, now)
    /\ response' = TwiML(generateTwiML(CallSid, Undefined))
    /\ lastEvent' = Event("incoming", CallSid, 0, <<From, To>>)
    /\ UNCHANGED <<mediaStreams, sockets, now, deploymentUrl, config>>

\* POST /voice/incoming of index-websocket.js alone
Incoming(CallSid, From, To) == IncomingPaired(CallSid, From, To, httpOnly)

\* a handler that looks the call up with a store that creates what it misses
HandleInput_Creates(CallSid, SpeechResult, Digits) ==
    /\ callSessions' = IF MapHas(callSessions, CallSid)
                       THEN callSessions
                       ELSE handleIncoming(callSessions, CallSid, Undefined, Undefined, now)
    /\ response' = TwiML(<<InputSay(SpeechResult, Digits), Hangup>>)
    /\ lastEvent' = Event("handle-input", CallSid, 0, <<SpeechResult, Digits>>)
    /\ UNCHANGED <<mediaStreams, sockets, now, deploymentUrl, config, httpOnly>>

\* POST /voice/handle-input
HandleInputPaired(CallSid, SpeechResult, Digits, p) ==
    /\ httpOnly' = p
    /\ response' = TwiML(<<InputSay(SpeechResult, Digits), Hangup>>)
    /\ lastEvent' = Event("handle-input", CallSid, 0, <<SpeechResult, Digits>>)
    /\ UNCHANGED <<callSessions, mediaStreams, sockets, now, deploymentUrl, config>>

\* POST /voice/handle-input of index-websocket.js alone
HandleInput(CallSid, SpeechResult, Digits) ==
    HandleInputPaired(CallSid, SpeechResult, Digits, httpOnly)

\* POST /voice/end-call
EndCallPaired(CallSid, p) ==
    /\ httpOnly' = p
    /\ callSessions' = endCall(callSessions, CallSid)
    /\ LET r == closeMediaStream(mediaStreams, sockets, CallSid)
       IN  /\ mediaStreams' = r.streams
           /\ sockets' = r.socks
    /\ response' = TwiML(<<Say(<<"Thank you for calling. Goodbye!">>), Hangup>>)
    /\ lastEvent' = Event("end-call", CallSid, 0, <<>>)
    /\ UNCHANGED <<now, deploymentUrl, config>>

\* POST /voice/end-call of index-websocket.js alone
EndCall(CallSid) == EndCallPaired(CallSid, httpOnly)

\* POST /voice/status-callback
StatusCallbackPaired(CallSid, CallStatus, p) ==
    /\ httpOnly' = p
    /\ response' = [status |-> 200, type |-> "", body |-> <<>>]
    /\ lastEvent' = Event("status-callback", CallSid, 0, <<CallStatus>>)
    /\ UNCHANGED <<callSessions, mediaStreams, sockets, now, deploymentUrl, config>>

\* POST /voice/status-callback of index-websocket.js alone
StatusCallback(CallSid, CallStatus) ==
    StatusCallbackPaired(CallSid, CallStatus, httpOnly)

\* `${process.env.DEPLOYMENT_URL.replace('http', 'ws')}/media/${CallSid}`
StreamUrl(url, CallSid) ==
    Replace(url, <<"h", "t", "t", "p">>, <<"w", "s">>)
        \o <<"/", "m", "e", "d", "i", "a", "/">> \o ToStr(CallSid)

\* POST /voice/media-stream; reading .replace of an unset DEPLOYMENT_URL throws
\* a TypeError, which Express hands to the error-handling middleware
MediaStream(CallSid) ==
    /\ IF deploymentUrl = Undefined
       THEN response' = ErrorResponse("Cannot read properties of undefined")
       ELSE LET wssUrl == StreamUrl(deploymentUrl, CallSid)
            IN  response' = TwiML(<<Verb("Start", <<>>, <<Verb("Stream", wssUrl, <<>>)>>)>>)
    /\ lastEvent' = Event("media-stream", CallSid, 0, <<>>)
    /\ UNCHANGED <<callSessions, mediaStreams, sockets, now, deploymentUrl, config, httpOnly>>

\* A call of a helper: the request is made only with a credential; the result
\* is recorded with the call. The awaits of a helper touch no shared state, so
\* the call is one step.
Helper(name, apiKey, input, out, result) ==
    /\ (out = NotSent) <=> ~Truthy(apiKey)
    /\ lastEvent' = Event(name, Undefined, 0,
                          <<ToStr(input), <<out.kind>>, <<out.status>>, result>>)
    /\ response' = NoResponse
    /\ UNCHANGED <<callSessions, mediaStreams, sockets, now, deploymentUrl, config, httpOnly>>

GenerateWithKimi(userInput, out) ==
    Helper("generateWithKimi", config.groq, userInput, out,
           generateWithKimi(config.groq, userInput, out))

SynthesizeWithSonic3(text, out) ==
    Helper("synthesizeWithSonic3", config.cartesia, text, out,
           synthesizeWithSonic3(config.cartesia, text, out))

TranscribeWithInkWhisper(audioData, out) ==
    Helper("transcribeWithInkWhisper", config.inkWhisper, audioData, out,
           transcribeWithInkWhisper(config.inkWhisper, audioData, out))

\* a listing that also drops the ended calls from the store
ListCalls_Prunes ==
    /\ LET activeCalls == ActiveCalls(callSessions)
       IN  response' = [status |-> 200, type |-> "application/json",
                        body |-> <<[activeCalls |-> Len(activeCalls),
                                    calls |-> activeCalls]>>]
    /\ callSessions' = SelectSeq(callSessions, LAMBDA e : e.val.active)
    /\ lastEvent' = Event("calls", Undefined, 0, <<>>)
    /\ UNCHANGED <<mediaStreams, sockets, now, deploymentUrl, config, httpOnly>>

\* GET /voice/calls
ListCallsPaired(p) ==
    /\ httpOnly' = p
    /\ LET activeCalls == ActiveCalls(callSessions)
       IN  response' = [status |-> 200, type |-> "application/json",
                        body |-> <<[activeCalls |-> Len(activeCalls),
                                    calls |-> activeCalls]>>]
    /\ lastEvent' = Event("calls", Undefined, 0, <<>>)
    /\ UNCHANGED <<callSessions, mediaStreams, sockets, now, deploymentUrl, config>>

\* GET /voice/calls of index-websocket.js alone
ListCalls == ListCallsPaired(httpOnly)

\* ------------------------------------------------------ streaming socket
\* the socket the next accepted upgrade is handed
NextSocket == CHOOSE w \in Sockets :
                 /\ sockets[w].readyState = "FREE"
                 /\ \A v \in Sockets : sockets[v].readyState = "FREE" => w <= v

\* server.on('upgrade') and, for a matching path, wss.on('connection')
Upgrade(pathname) ==
    LET callSid == MatchMedia(pathname)
    IN  IF callSid # NoMatch
        THEN /\ \E w \in Sockets : sockets[w].readyState = "FREE"
             /\ LET ws == NextSocket
                    opened == [sockets EXCEPT ![ws] =
                                 [FreeSocket EXCEPT !.readyState = "OPEN",
                                                    !.callSid = callSid]]
                IN  /\ mediaStreams' = registerMediaStream(mediaStreams, callSid, ws, now)
                    /\ sockets' = WebSocketSendAck(opened, ws, callSid)
                    /\ lastEvent' = Event("connection", callSid, ws, <<pathname>>)
             /\ response' = NoResponse
             /\ UNCHANGED <<callSessions, now, deploymentUrl, config, httpOnly>>
        ELSE \* socket.destroy()
             /\ lastEvent' = Event("upgrade-rejected", Undefined, 0, <<pathname>>)
             /\ response' = NoResponse
             /\ UNCHANGED <<callSessions, mediaStreams, sockets, now, deploymentUrl, config, httpOnly>>

\* frames still arrive on a connection that is closing
Receiving(w) == sockets[w].readyState \in {"OPEN", "CLOSING"}

\* ws.on('message')
\* a handler without try/catch around JSON.parse: a message that does not parse
\* ends the connection's session
WsMessageUpTo_NoCatch(w, data, cap) ==
    LET callSid == sockets[w].callSid
    IN  /\ Receiving(w)
        /\ CASE data.event = <<"media">> ->
                  /\ MapHas(mediaStreams, callSid) =>
                        Len(MapGet(mediaStreams, callSid).audioBuffer) < cap
                  /\ mediaStreams' = pushAudio(mediaStreams, callSid, data.payload)
                  /\ UNCHANGED sockets
             [] data.event \in {<<"stop">>, <<"#">>} ->
                  LET r == closeMediaStream(mediaStreams, sockets, callSid)
                  IN  /\ mediaStreams' = r.streams
                      /\ sockets' = [r.socks EXCEPT ![w].stopped = TRUE]
             [] OTHER ->
                  UNCHANGED <<mediaStreams, sockets>>
        /\ lastEvent' = Event("message", callSid, w, <<data.event, data.payload>>)
        /\ response' = NoResponse
        /\ UNCHANGED <<callSessions, now, deploymentUrl, config, httpOnly>>

\* ws.on('message') while no session buffers more than cap frames
WsMessageUpTo(w, data, cap) ==
    LET callSid == sockets[w].callSid
    IN  /\ Receiving(w)
        /\ CASE data.event = <<"media">> ->
                  /\ MapHas(mediaStreams, callSid) =>
                        Len(MapGet(mediaStreams, callSid).audioBuffer) < cap
                  /\ mediaStreams' = pushAudio(mediaStreams, callSid, data.payload)
                  /\ UNCHANGED sockets
             [] data.event = <<"stop">> ->
                  LET r == closeMediaStream(mediaStreams, sockets, callSid)
                  IN  /\ mediaStreams' = r.streams
                      /\ sockets' = [r.socks EXCEPT ![w].stopped = TRUE]
             [] OTHER -> \* start, an unknown event, or a caught parse error
                  UNCHANGED <<mediaStreams, sockets>>
        /\ lastEvent' = Event("message", callSid, w, <<data.event, data.payload>>)
        /\ response' = NoResponse
        /\ UNCHANGED <<callSessions, now, deploymentUrl, config, httpOnly>>

\* ws.on('message')
WsMessage(w, data) == WsMessageUpTo(w, data, MaxFrames)

\* ws.on('error')
WsError(w) ==
    /\ Receiving(w)
    /\ lastEvent' = Event("error", sockets[w].callSid, w, <<>>)
    /\ response' = NoResponse
    /\ UNCHANGED <<callSessions, mediaStreams, sockets, now, deploymentUrl, config, httpOnly>>

\* ws.on('close'): the connection has reached CLOSED, after a remote
\* disconnect or at the end of a closing handshake
\* a close handler that also ends the call of the connection
WsClose_EndsCall(w) ==
    LET callSid == sockets[w].callSid
        closed == [sockets EXCEPT ![w].readyState = "CLOSED"]
        r == closeMediaStream(mediaStreams, closed, callSid)
    IN  /\ Receiving(w)
        /\ mediaStreams' = r.streams
        /\ sockets' = r.socks
        /\ callSessions' = endCall(callSessions, callSid)
        /\ lastEvent' = Event("close", callSid, w, <<>>)
        /\ response' = NoResponse
        /\ UNCHANGED <<now, deploymentUrl, config, httpOnly>>

WsClose(w) ==
    LET callSid == sockets[w].callSid
        closed == [sockets EXCEPT ![w].readyState = "CLOSED"]
        r == closeMediaStream(mediaStreams, closed, callSid)
    IN  /\ Receiving(w)
        /\ mediaStreams' = r.streams
        /\ sockets' = r.socks
        /\ lastEvent' = Event("close", callSid, w, <<>>)
        /\ response' = NoResponse
        /\ UNCHANGED <<callSessions, now, deploymentUrl, config, httpOnly>>

\* Webhook traffic alone: the whole of src/index.js, and src/index-websocket.js
\* as long as no streaming connection is opened.
NextCalls ==
    \/ Tick
    \/ \E c \in BodySids, f \in Froms, t \in Tos : Incoming(c, f, t)
    \/ \E c \in BodySids, sp \in Speeches, d \in DigitsIn : HandleInput(c, sp, d)
    \/ \E c \in BodySids : EndCall(c)
    \/ \E c \in BodySids, st \in Statuses : StatusCallback(c, st)
    \/ ListCalls

SpecCalls == Init /\ [][NextCalls]_vars

\* Webhooks and streaming connections of src/index-websocket.js interleaved,
\* the webhooks with one value for each field that no stream handler reads.
Next ==
    \/ Tick
    \/ \E c \in CallSids, t \in Tos : Incoming(c, StreamFrom, t)
    \/ \E c \in CallSids, sp \in StreamSpeeches : HandleInput(c, sp, Undefined)
    \/ \E c \in CallSids : EndCall(c)
    \/ \E c \in CallSids, st \in Statuses : StatusCallback(c, st)
    \/ \E c \in CallSids : MediaStream(c)
    \/ ListCalls
    \/ \E p \in Paths : Upgrade(p)
    \/ \E w \in Sockets, m \in Messages : WsMessage(w, m)
    \/ \E w \in Sockets : WsError(w)
    \/ \E w \in Sockets : WsClose(w)

Spec == Init /\ [][Next]_vars

\* The handlers that read or write the stream registry, alone: the socket
\* handlers and the end-call webhook of src/index-websocket.js.
NextStreams ==
    \/ Tick
    \/ \E c \in CallSids : EndCall(c)
    \/ \E p \in Paths : Upgrade(p)
    \/ \E w \in Sockets, m \in Messages : WsMessage(w, m)
    \/ \E w \in Sockets : WsError(w)
    \/ \E w \in Sockets : WsClose(w)

SpecStreams == Init /\ [][NextStreams]_vars

\* The webhooks of src/index-websocket.js that answer with a call-control
\* document, in a deployment that may have been started without DEPLOYMENT_URL.
NextWebhooks ==
    \/ \E c \in BodySids, t \in Tos : Incoming(c, StreamFrom, t)
    \/ \E c \in BodySids, sp \in Speeches, d \in DigitsIn : HandleInput(c, sp, d)
    \/ \E c \in BodySids : EndCall(c)
    \/ \E c \in BodySids : MediaStream(c)

SpecWebhooks == InitAnyEnv /\ [][NextWebhooks]_vars

\* The call store and the stream registry side by side: the webhooks that write
\* or list the call store or name the streaming endpoint, and the socket handlers.
NextShared ==
    \/ \E c \in CallSids, t \in Tos : Incoming(c, StreamFrom, t)
    \/ \E c \in CallSids : EndCall(c)
    \/ \E c \in SetupSids : MediaStream(c)
    \/ ListCalls
    \/ \E p \in Paths : Upgrade(p)
    \/ \E w \in Sockets, m \in Messages : WsMessage(w, m)
    \/ \E w \in Sockets : WsError(w)
    \/ \E w \in Sockets : WsClose(w)

SpecShared == Init /\ [][NextShared]_vars

\* Both servers given the same webhook requests, the clock read by both, while
\* streams connect to the WebSocket variant.
NextVariants ==
    \/ Tick
    \/ \E c \in BodySids, t \in Tos :
           IncomingPaired(c, StreamFrom, t, HttpIncoming(httpOnly, c, StreamFrom, t, now))
    \/ \E sp \in Speeches, d \in DigitsIn :
           HandleInputPaired(CA1, sp, d, HttpHandleInput(httpOnly, CA1, sp, d))
    \/ \E c \in BodySids : EndCallPaired(c, HttpEndCallRoute(httpOnly, c))
    \/ \E st \in Statuses :
           StatusCallbackPaired(CA1, st, HttpStatusCallback(httpOnly, CA1, st))
    \/ ListCallsPaired(HttpListCalls(httpOnly))
    \/ Upgrade(MediaPrefix \o CA1)

SpecVariants == Init /\ [][NextVariants]_vars

\* What ends the session of an accepted connection w: its close event, a stop
\* message on it, or the end-call webhook for its identifier.
TeardownEvent(w) ==
    \/ WsClose(w)
    \/ WsMessage(w, [event |-> <<"stop">>, payload |-> Undefined])
    \/ Receiving(w) /\ EndCall(sockets[w].callSid)

\* The stream handlers when every accepted connection gets, sooner or later, one
\* of these events for as long as it has not been closed.
SpecCleanup ==
    /\ Init
    /\ [][NextStreams]_vars
    /\ \A w \in Sockets : WF_vars(TeardownEvent(w))

\* The stream handlers with sessions that buffer several frames.
NextFrames ==
    \/ \E p \in Paths : Upgrade(p)
    \/ \E w \in Sockets, m \in Messages : WsMessageUpTo(w, m, MaxBuffered)
    \/ \E w \in Sockets : WsClose(w)
    \/ \E c \in CallSids : EndCall(c)

SpecFrames == Init /\ [][NextFrames]_vars

\* a deployment with any of the three credentials set, empty or unset
InitAnyConfig ==
    \E g \in ApiKeys, c \in ApiKeys, i \in ApiKeys :
        Listening(DeployedUrl, Config(g, c, i))

\* The helpers of AIModelManager, called while calls arrive and streams connect.
NextHelpers ==
    \/ \E c \in CallSids, t \in Tos : Incoming(c, StreamFrom, t)
    \/ \E p \in Paths : Upgrade(p)
    \/ \E o \in FetchOutcomes \cup {NotSent} : GenerateWithKimi(<<"h", "i">>, o)
    \/ \E o \in FetchOutcomes \cup {NotSent} : SynthesizeWithSonic3(<<"h", "i">>, o)
    \/ \E a \in Payloads, o \in FetchOutcomes \cup {NotSent} :
           TranscribeWithInkWhisper(a, o)

SpecHelpers == InitAnyConfig /\ [][NextHelpers]_vars

\* ============================================================ properties
\* the record stored for a call, and whether it counts as active
Known(c)    == MapHas(callSessions, c)
IsActive(c) == Known(c) /\ MapGet(callSessions, c).active
Live(c)     == MapHas(mediaStreams, c)

\* the entries of a Map stored under key k
Entries(m, k) == {i \in 1..Len(m) : m[i].key = k}

\* an event that invokes closeMediaStream(ev.callSid)
IsTeardown(ev) ==
    \/ ev.op = "end-call"
    \/ ev.op = "close"
    \/ ev.op = "message" /\ ev.args[1] = <<"stop">>

\* the call-control document ends the call
Disconnects(r) ==
    /\ r.type = "text/xml"
    /\ Len(r.body) > 0
    /\ r.body[Len(r.body)] = Hangup

\* C1 (as claimed): a repeated incoming-call event for an identifier leaves exactly
\* one CallRecord for it, with the active flag (the only dialog state the record
\* carries) as it was immediately before the duplicate.
C1_DuplicateIncomingKeepsState ==
    [][\A c \in CallSids :
         (lastEvent'.op = "incoming" /\ lastEvent'.callSid = c /\ Known(c)) =>
            /\ Cardinality(Entries(callSessions', c)) = 1
            /\ MapGet(callSessions', c).active = MapGet(callSessions, c).active]_vars

\* C2 (as claimed): registering a connection for an identifier that already has a
\* live session fails: the registry entry (connection, creation time, frame buffer)
\* is the one it was, and the first connection has not been closed.
C2_SecondRegisterRejected ==
    [][\A c \in CallSids :
         (lastEvent'.op = "connection" /\ lastEvent'.callSid = c /\ Live(c)) =>
            /\ MapHas(mediaStreams', c)
            /\ MapGet(mediaStreams', c) = MapGet(mediaStreams, c)
            /\ sockets'[MapGet(mediaStreams, c).websocket].readyState = "OPEN"]_vars

\* C3: teardown is idempotent. Every invocation of closeMediaStream(c) leaves the
\* registry without an entry for c; when a session was registered, close() is
\* invoked on its connection for the first and only time and on no other
\* connection; when none was registered (a second or later teardown) the registry
\* and every connection's close count stay as they were; no connection ever has
\* close() invoked twice.
C3_TeardownIdempotent ==
    [][IsTeardown(lastEvent') =>
         LET c == lastEvent'.callSid
         IN  /\ ~MapHas(mediaStreams', c)
             /\ \A v \in Sockets : sockets'[v].closeCalls <= 1
             /\ IF Live(c)
                THEN LET w == MapGet(mediaStreams, c).websocket
                     IN  /\ sockets[w].closeCalls = 0
                         /\ sockets'[w].closeCalls = 1
                         /\ \A v \in Sockets \ {w} :
                               sockets'[v].closeCalls = sockets[v].closeCalls
                         /\ mediaStreams' = MapDelete(mediaStreams, c)
                ELSE /\ mediaStreams' = mediaStreams
                     /\ \A v \in Sockets :
                           sockets'[v].closeCalls = sockets[v].closeCalls]_vars

\* C3 witness: a session was torn down by a stop message or an end-call, and the
\* close notification of its connection has invoked teardown a second time; the
\* connection was closed once and the registry is empty.
C3_Witness ==
    /\ lastEvent.op = "close"
    /\ sockets[lastEvent.ws].readyState = "CLOSED"
    /\ sockets[lastEvent.ws].closeCalls = 1
    /\ sockets[lastEvent.ws].staleCloses = 0
    /\ \A v \in Sockets \ {lastEvent.ws} : sockets[v].readyState = "FREE"
    /\ mediaStreams = <<>>

\* C4 (as claimed): on every accepted connection close() is invoked exactly once
\* over its lifetime and never on a handle that is already closed, and no registry
\* entry is left for a connection that is closed.
C4_ExactlyOneCloseNeverStale ==
    /\ \A w \in Sockets :
          /\ sockets[w].staleCloses = 0
          /\ sockets[w].closeCalls <= 1
          /\ sockets[w].readyState = "CLOSED" => sockets[w].closeCalls = 1
    /\ \A i \in 1..Len(mediaStreams) :
          sockets[mediaStreams[i].val.websocket].readyState # "CLOSED"

\* the identifiers the listing last returned
Listed == {response.body[1].calls[i].callSid : i \in 1..Len(response.body[1].calls)}

\* C5: the active-call listing holds exactly the calls whose record is marked
\* active, each once, and reports their number.
C5_ListingIsActiveSet ==
    lastEvent.op = "calls" =>
        /\ Listed = {c \in BodySids : IsActive(c)}
        /\ Len(response.body[1].calls) = Cardinality(Listed)
        /\ response.body[1].activeCalls = Cardinality(Listed)

\* C5 witness: a listing taken while one call is active and another has been ended.
C5_Witness ==
    /\ lastEvent.op = "calls"
    /\ \E a, b \in BodySids : IsActive(a) /\ Known(b) /\ ~IsActive(b) /\ a \in Listed

\* C6 (as claimed): after an input-received event the response disconnects and the
\* call's record no longer counts as active.
C6_InputTerminatesCall ==
    (lastEvent.op = "handle-input" /\ Known(lastEvent.callSid)) =>
        /\ Disconnects(response)
        /\ ~IsActive(lastEvent.callSid)

\* the branch a handle-input response took, and the value it acknowledges
Branch(r) == r.body[1].arg[1]
Echoed(r) == Tail(r.body[1].arg)

\* C7 (as claimed): the branch follows the presence of the fields: transcript
\* present, else digits present, else no input.
C7_BranchByPresence ==
    lastEvent.op = "handle-input" =>
        LET sp == lastEvent.args[1]
            d  == lastEvent.args[2]
        IN  Branch(response) =
               IF sp # Undefined THEN "I understood: "
               ELSE IF d # Undefined THEN "You pressed: "
               ELSE "No input received. Goodbye!"

\* a field that is present with at least one character
NonEmpty(v) == v # Undefined /\ Len(v) > 0

\* C7 (amended): the branch follows the fields that are present and non-empty: a
\* non-empty transcript selects the transcript acknowledgment whatever the digits
\* are; otherwise non-empty digits select the digits acknowledgment; otherwise the
\* "no input received" branch; each acknowledgment carries the value it names.
C7_BranchByNonEmpty ==
    lastEvent.op = "handle-input" =>
        LET sp == lastEvent.args[1]
            d  == lastEvent.args[2]
        IN  /\ Branch(response) =
                  IF NonEmpty(sp) THEN "I understood: "
                  ELSE IF NonEmpty(d) THEN "You pressed: "
                  ELSE "No input received. Goodbye!"
            /\ Echoed(response) =
                  IF NonEmpty(sp) THEN sp ELSE IF NonEmpty(d) THEN d ELSE <<>>

\* C7 witness: transcript and digits both sent, the call already ended: the
\* transcript branch is taken.
C7_Witness ==
    /\ lastEvent.op = "handle-input"
    /\ NonEmpty(lastEvent.args[1])
    /\ NonEmpty(lastEvent.args[2])
    /\ Known(lastEvent.callSid) /\ ~IsActive(lastEvent.callSid)
    /\ Branch(response) = "I understood: "

\* C8 (as claimed): a terminal status notification marks the call's record
\* inactive and is answered with an empty 200.
C8_StatusMarksInactive ==
    (lastEvent.op = "status-callback" /\ Known(lastEvent.callSid)) =>
        /\ ~IsActive(lastEvent.callSid)
        /\ response.status = 200
        /\ response.body = <<>>

\* C9 (as claimed): a record that has been marked inactive stays stored and
\* inactive through every later event.
C9_TerminatedIsTerminal ==
    [][\A c \in CallSids :
         (Known(c) /\ ~IsActive(c)) =>
            (MapHas(callSessions', c) /\ ~MapGet(callSessions', c).active)]_vars

\* C10: an end-call event leaves the call's record (if any) inactive, the registry
\* without a session for the call, a session that was live with close() invoked on
\* its open connection, and answers with the closing utterance and a disconnect.
C10_EndCallTerminates ==
    [][lastEvent'.op = "end-call" =>
         LET c == lastEvent'.callSid
         IN  /\ MapKeys(callSessions') = MapKeys(callSessions)
             /\ Known(c) => ~MapGet(callSessions', c).active
             /\ ~MapHas(mediaStreams', c)
             /\ Live(c) =>
                   LET w == MapGet(mediaStreams, c).websocket
                   IN  /\ sockets[w].readyState = "OPEN"
                       /\ sockets'[w].readyState = "CLOSING"
             /\ response'.status = 200
             /\ response'.body = <<Say(<<"Thank you for calling. Goodbye!">>), Hangup>>
             /\ Disconnects(response')]_vars

\* C10 witness: an active call with a live stream has been ended.
C10_Witness ==
    /\ lastEvent.op = "end-call"
    /\ Known(lastEvent.callSid) /\ ~IsActive(lastEvent.callSid)
    /\ ~Live(lastEvent.callSid)
    /\ \E w \in Sockets :
          /\ sockets[w].callSid = lastEvent.callSid
          /\ sockets[w].readyState = "CLOSING"
          /\ sockets[w].closeCalls = 1

\* a stream protocol message with the given event discriminator
IsMsg(ev, kind) == ev.op = "message" /\ ev.args[1] = <<kind>>

\* C11: a stop message leaves the registry without a session for the connection's
\* identifier, and when the session was registered with the connection the stop
\* arrived on, close() is invoked on that connection for the first and only time;
\* a media frame for an identifier that has no live session (a late frame after
\* the stop included) changes no registry entry, buffer, connection or call record.
C11_StopThenLateFrame ==
    [][/\ IsMsg(lastEvent', "stop") =>
            LET c == lastEvent'.callSid
                w == lastEvent'.ws
            IN  /\ ~MapHas(mediaStreams', c)
                /\ (Live(c) /\ MapGet(mediaStreams, c).websocket = w) =>
                      /\ sockets[w].closeCalls = 0
                      /\ sockets'[w].closeCalls = 1
                      /\ sockets'[w].readyState = "CLOSING"
       /\ (IsMsg(lastEvent', "media") /\ ~Live(lastEvent'.callSid)) =>
            /\ mediaStreams' = mediaStreams
            /\ callSessions' = callSessions
            /\ sockets' = sockets]_vars

\* C11 witness: a frame has arrived on a connection after its stop message closed
\* it, while another call's session holds a frame; its own call has no session.
C11_Witness ==
    /\ IsMsg(lastEvent, "media")
    /\ sockets[lastEvent.ws].stopped
    /\ sockets[lastEvent.ws].readyState = "CLOSING"
    /\ sockets[lastEvent.ws].closeCalls = 1
    /\ ~Live(lastEvent.callSid)
    /\ \E i \in 1..Len(mediaStreams) : Len(mediaStreams[i].val.audioBuffer) > 0

\* C12 (as claimed): a media frame received on a connection on which a stop
\* message has been handled is appended to no session's frame sequence.
C12_NoFrameAfterStop ==
    [][(IsMsg(lastEvent', "media") /\ sockets[lastEvent'.ws].stopped) =>
          mediaStreams' = mediaStreams]_vars

ValidPaths == {MediaPrefix \o c : c \in CallSids}

\* C14: an upgrade request reaches registration only if its path is /media/
\* followed by a call identifier, and is then registered under that identifier; a
\* request with any other path is dropped: no session is registered, nothing is
\* sent, and the registry, the connections and the call records stay as they were.
C14_UpgradeRouting ==
    [][/\ lastEvent'.op = "connection" =>
            /\ lastEvent'.args[1] \in ValidPaths
            /\ lastEvent'.args[1] = MediaPrefix \o lastEvent'.callSid
            /\ MapHas(mediaStreams', lastEvent'.callSid)
            /\ MapGet(mediaStreams', lastEvent'.callSid).websocket = lastEvent'.ws
       /\ lastEvent'.op = "upgrade-rejected" =>
            /\ lastEvent'.args[1] \notin ValidPaths
            /\ mediaStreams' = mediaStreams
            /\ sockets' = sockets
            /\ callSessions' = callSessions]_vars

\* C14 witness: a request whose path names no identifier has been dropped while a
\* session is live.
C14_Witness ==
    /\ lastEvent.op = "upgrade-rejected"
    /\ lastEvent.args[1] = MediaPrefix
    /\ mediaStreams # <<>>

\* C15: every accepted connection has had exactly one `connected` acknowledgment
\* sent on it, carrying the identifier captured from its path; nothing is sent on
\* a connection outside the step that accepts it, and at the end of that step the
\* session is registered under the identifier with this connection.
C15_OneAckAfterRegistration ==
    [][\A w \in Sockets :
         /\ sockets'[w].readyState = "FREE" => sockets'[w].sent = <<>>
         /\ sockets'[w].readyState # "FREE" => sockets'[w].sent = <<sockets'[w].callSid>>
         /\ sockets'[w].sent # sockets[w].sent =>
               /\ lastEvent'.op = "connection"
               /\ lastEvent'.ws = w
               /\ lastEvent'.args[1] = MediaPrefix \o sockets'[w].sent[1]
               /\ MapHas(mediaStreams', sockets'[w].sent[1])
               /\ MapGet(mediaStreams', sockets'[w].sent[1]).websocket = w]_vars

\* C15 witness: a connection has been accepted, has received frames and a stop and
\* has closed; one acknowledgment was sent on it.
C15_Witness ==
    \E w \in Sockets :
        /\ sockets[w].readyState = "CLOSED"
        /\ sockets[w].stopped
        /\ Len(sockets[w].sent) = 1
        /\ sockets[w].sent[1] = sockets[w].callSid

\* the webhook entry points that answer with a call-control document
TwiMLWebhooks == {"incoming", "handle-input", "end-call", "media-stream"}

\* C16 (as claimed): every request to a webhook entry point is answered with
\* status 200, an XML content type and a non-empty call-control document.
C16_WebhooksAnswerTwiML ==
    lastEvent.op \in TwiMLWebhooks =>
        /\ response.status = 200
        /\ response.type = "text/xml"
        /\ Len(response.body) > 0

\* the attributes of a directive
Attrs(v) == {v.arg[i] : i \in 1..Len(v.arg)}

\* C17: the response to an incoming-call event is a call-control document of
\* exactly three directives: a greeting utterance, a gather of one key-press or
\* speech with a three-second timeout whose action is the input-received entry,
\* and a redirect to the end-call entry; this holds for every incoming-call event,
\* a repeated one included.
C17_IncomingShape ==
    lastEvent.op = "incoming" =>
        /\ response.status = 200
        /\ response.type = "text/xml"
        /\ Len(response.body) = 3
        /\ response.body[1].verb = "Say"
        /\ response.body[1].arg =
              <<"Welcome to the voice agent. Please speak after the beep.">>
        /\ response.body[2].verb = "Gather"
        /\ response.body[2].arg[1] = "/voice/handle-input"
        /\ {"numDigits=1", "timeout=3", "speechTimeout=auto"}
              \subseteq Attrs(response.body[2])
        /\ response.body[3].verb = "Redirect"
        /\ response.body[3].arg = <<"/voice/end-call">>

\* C17 witness: the incoming-call event just answered is a repeated one: its
\* record is older in the store than another record and has a later start time.
C17_Witness ==
    /\ lastEvent.op = "incoming"
    /\ Len(callSessions) = 2
    /\ callSessions[1].key = lastEvent.callSid
    /\ callSessions[1].val.startTime > callSessions[2].val.startTime
    /\ Len(response.body) = 3

\* what a map holds for key k
EntryOf(m, k) == IF MapHas(m, k) THEN <<MapGet(m, k)>> ELSE <<>>

\* C18: a step that handles an event of call identifier a leaves the call record
\* and the stream session (connection, start time, frame buffer) of every other
\* identifier as they were.
C18_PerCallContainment ==
    [][\A b \in BodySids :
          lastEvent'.callSid # b =>
             /\ EntryOf(callSessions', b) = EntryOf(callSessions, b)
             /\ EntryOf(mediaStreams', b) = EntryOf(mediaStreams, b)]_vars

\* C18 witness: the end-call event of one identifier has torn its session down
\* while another identifier has an active record and a session holding frames.
C18_Witness ==
    /\ lastEvent.op = "end-call"
    /\ Known(lastEvent.callSid)
    /\ ~IsActive(lastEvent.callSid)
    /\ ~Live(lastEvent.callSid)
    /\ \E w \in Sockets :
          /\ sockets[w].callSid = lastEvent.callSid
          /\ sockets[w].closeCalls = 1
    /\ \E b \in CallSids :
          /\ b # lastEvent.callSid
          /\ IsActive(b)
          /\ Live(b)
          /\ Len(MapGet(mediaStreams, b).audioBuffer) > 0

\* C19: the store never holds two records for one call identifier, and no step
\* removes a record from it.
C19_OneRecordNeverDeleted ==
    [][/\ \A c \in BodySids : Cardinality(Entries(callSessions', c)) <= 1
       /\ MapKeys(callSessions) \subseteq MapKeys(callSessions')]_vars

\* C19 witness: after a repeated incoming-call event and a termination the store
\* holds one record for each of two identifiers, one of them inactive.
C19_Witness ==
    /\ lastEvent.op = "end-call"
    /\ Len(callSessions) = 2
    /\ ~IsActive(lastEvent.callSid)
    /\ callSessions[1].val.startTime > callSessions[2].val.startTime
    /\ \A c \in CallSids : Cardinality(Entries(callSessions, c)) = 1

\* the helper calls and the credential each of them needs
HelperOps == {"generateWithKimi", "synthesizeWithSonic3", "transcribeWithInkWhisper"}
KeyOf(op) == IF op = "generateWithKimi" THEN config.groq
             ELSE IF op = "synthesizeWithSonic3" THEN config.cartesia
             ELSE config.inkWhisper

C22_ListingReadOnlySnapshot ==
    [][lastEvent'.op = "calls" =>
          /\ callSessions' = callSessions
          /\ mediaStreams' = mediaStreams
          /\ sockets' = sockets
          /\ LET calls == response'.body[1].calls
             IN  /\ response'.body[1].activeCalls = Len(calls)
                 /\ \A i \in 1..Len(calls) :
                       /\ MapHas(callSessions', calls[i].callSid)
                       /\ LET rec == MapGet(callSessions', calls[i].callSid)
                          IN  /\ calls[i].from = rec.from
                              /\ calls[i].to = rec.to
                              /\ calls[i].startTime = rec.startTime]_vars

\* C22 witness: a listing taken while a stream session holds frames, one call
\* that started late is listed and an ended call is still stored.
C22_Witness ==
    /\ lastEvent.op = "calls"
    /\ response.body[1].activeCalls = 1
    /\ response.body[1].calls[1].startTime > 0
    /\ Len(callSessions) = 2
    /\ \E i \in 1..Len(mediaStreams) : Len(mediaStreams[i].val.audioBuffer) > 0

\* C23 (as claimed): no call record is ever stored under an absent identifier.
C23_NoRecordWithoutIdentifier ==
    ~MapHas(callSessions, Undefined)

\* the streaming endpoint the last response names
NamedStream == response.body[1].nested[1].arg

\* C24 (as claimed): when a stream-setup request for identifier c has been
\* answered and the next request is an upgrade to the path of the endpoint the
\* answer names, the upgrade is accepted and registered under c.
C24_SetupUpgradeRoundTrip ==
    [][(/\ lastEvent.op = "media-stream"
        /\ response.status = 200
        /\ lastEvent'.op \in {"connection", "upgrade-rejected"}
        /\ lastEvent'.args[1] = UrlPath(NamedStream)) =>
          /\ lastEvent'.op = "connection"
          /\ lastEvent'.callSid = lastEvent.callSid
          /\ MapHas(mediaStreams', lastEvent.callSid)]_vars

\* the frames of the session registered for c
Frames(ms, c) == MapGet(ms, c).audioBuffer

\* C25: in every step and for every identifier whose session is registered with
\* the same connection before and after, a media message for the identifier adds
\* its payload, one frame, at the end of the session's frames, and any other step
\* leaves the frames as they are; a session registered in the step has no frames.
C25_FramesAppendOnly ==
    [][\A c \in CallSids :
          MapHas(mediaStreams', c) =>
             IF MapHas(mediaStreams, c)
                /\ MapGet(mediaStreams', c).websocket = MapGet(mediaStreams, c).websocket
             THEN IF IsMsg(lastEvent', "media") /\ lastEvent'.callSid = c
                  THEN Frames(mediaStreams', c) =
                          Append(Frames(mediaStreams, c), lastEvent'.args[2])
                  ELSE Frames(mediaStreams', c) = Frames(mediaStreams, c)
             ELSE /\ lastEvent'.op = "connection"
                  /\ lastEvent'.callSid = c
                  /\ Frames(mediaStreams', c) = <<>>]_vars

\* C25 witness: a session holds three frames, not all alike, the last of them
\* being the payload of the media message just handled.
C25_Witness ==
    /\ IsMsg(lastEvent, "media")
    /\ Live(lastEvent.callSid)
    /\ LET f == Frames(mediaStreams, lastEvent.callSid)
       IN  /\ Len(f) = 3
           /\ f[1] # f[2]
           /\ f[3] = lastEvent.args[2]
           /\ f[3] # f[2]

\* C26: an end-call event for an identifier that has no record, or whose record
\* is already inactive, leaves the store exactly as it was.
C26_EndCallNoOp ==
    [][lastEvent'.op = "end-call" =>
          LET c == lastEvent'.callSid
          IN  (~Known(c) \/ ~IsActive(c)) => callSessions' = callSessions]_vars

\* C26 witness: an end-call event for an unknown identifier has been answered;
\* the store holds the record of another call, ended earlier, and nothing else.
C26_Witness ==
    /\ lastEvent.op = "end-call"
    /\ ~Known(lastEvent.callSid)
    /\ Len(callSessions) = 1
    /\ ~callSessions[1].val.active

\* the events the stream handlers and the upgrade routing handle
StreamOps == {"connection", "upgrade-rejected", "message", "error", "close"}

\* C27: a step that handles an upgrade, a stream message, a connection error or
\* a connection close leaves the call store as it was.
C27_StreamsLeaveCallStore ==
    [][lastEvent'.op \in StreamOps => callSessions' = callSessions]_vars

\* C27 witness: a connection has closed and its session is gone while the record
\* of its call is still active, and another session is registered for an
\* identifier that has no record.
C27_Witness ==
    /\ lastEvent.op = "close"
    /\ IsActive(lastEvent.callSid)
    /\ ~Live(lastEvent.callSid)
    /\ \E c \in CallSids : Live(c) /\ ~Known(c)

\* C28 (as claimed): an incoming-call event for an identifier that has a record
\* leaves the origin, destination and start time of the record as they were.
C28_DuplicateIncomingKeepsOrigin ==
    [][\A c \in CallSids :
         (lastEvent'.op = "incoming" /\ lastEvent'.callSid = c /\ Known(c)) =>
            /\ MapGet(callSessions', c).from = MapGet(callSessions, c).from
            /\ MapGet(callSessions', c).to = MapGet(callSessions, c).to
            /\ MapGet(callSessions', c).startTime
                  = MapGet(callSessions, c).startTime]_vars

\* C29 (as claimed): a stop message or a close event of connection x changes no
\* other connection and removes no registry entry whose connection is not x.
C29_EventsActOnOwnSession ==
    [][(lastEvent'.op = "close" \/ IsMsg(lastEvent', "stop")) =>
          LET x == lastEvent'.ws
          IN  /\ \A y \in Sockets \ {x} : sockets'[y] = sockets[y]
              /\ \A c \in CallSids :
                    (Live(c) /\ MapGet(mediaStreams, c).websocket # x) =>
                        MapHas(mediaStreams', c)]_vars

\* C30 (as claimed): every open connection is the connection of the registry
\* entry of its identifier.
C30_NoOrphanedConnection ==
    \A w \in Sockets :
        sockets[w].readyState = "OPEN" =>
            /\ Live(sockets[w].callSid)
            /\ MapGet(mediaStreams, sockets[w].callSid).websocket = w

\* C31 (as claimed): no stream session is registered for an identifier whose call
\* record is marked inactive.
C31_NoStreamForEndedCall ==
    \A c \in CallSids : (Known(c) /\ ~IsActive(c)) => ~Live(c)

\* the messages the handler has no branch for, the unparseable one among them
InertKinds == {"start", "mark", "#"}

\* C32: a start message, a message with an unknown event and a message that does
\* not parse change neither the registry (entries and frames) nor the call store
\* nor any connection: the connection they arrived on stays as open and as
\* registered as it was, so it still receives messages.
C32_InertMessages ==
    [][(lastEvent'.op = "message" /\ \E k \in InertKinds : lastEvent'.args[1] = <<k>>) =>
          /\ mediaStreams' = mediaStreams
          /\ callSessions' = callSessions
          /\ sockets' = sockets
          /\ Receiving(lastEvent'.ws)]_vars

\* C32 witness: a message that does not parse has been handled on an open
\* connection whose session holds a frame, while a call record exists.
C32_Witness ==
    /\ IsMsg(lastEvent, "#")
    /\ sockets[lastEvent.ws].readyState = "OPEN"
    /\ Live(lastEvent.callSid)
    /\ MapGet(mediaStreams, lastEvent.callSid).websocket = lastEvent.ws
    /\ Len(Frames(mediaStreams, lastEvent.callSid)) > 0
    /\ IsActive(lastEvent.callSid)

\* C34: an input-received event leaves the call store as it was, for an unknown
\* identifier in particular, and is answered with one utterance followed by the
\* disconnect directive.
C34_InputCreatesNoRecord ==
    [][lastEvent'.op = "handle-input" =>
          /\ callSessions' = callSessions
          /\ ~Known(lastEvent'.callSid) => ~MapHas(callSessions', lastEvent'.callSid)
          /\ response'.status = 200
          /\ response'.type = "text/xml"
          /\ Len(response'.body) = 2
          /\ response'.body[1].verb = "Say"
          /\ response'.body[2] = Hangup]_vars

\* C34 witness: an input-received event for an identifier without a record has
\* been answered while the store holds the record of another call.
C34_Witness ==
    /\ lastEvent.op = "handle-input"
    /\ ~Known(lastEvent.callSid)
    /\ lastEvent.callSid \in CallSids
    /\ callSessions # <<>>
    /\ Disconnects(response)

\* every accepted connection has had its close event
AllClosed == \A w \in Sockets : ~Receiving(w)

\* C33: when every accepted connection keeps getting a stop message, a close
\* event or an end-call event for its identifier until it is closed, every
\* registered session is removed in the end; and whenever no accepted connection
\* is left unclosed the registry is empty.
C33_CleanupLiveness ==
    /\ \A c \in CallSids : Live(c) ~> ~Live(c)
    /\ [](AllClosed => mediaStreams = <<>>)

\* C33 witness: two connections were accepted for one identifier, the second
\* replacing the first in the registry; both are closed and the registry is empty.
C33_Witness ==
    /\ \A w \in Sockets : sockets[w].readyState = "CLOSED"
    /\ sockets[1].callSid = sockets[2].callSid
    /\ mediaStreams = <<>>

\* the webhook and listing requests both servers answer
SharedOps == {"incoming", "handle-input", "end-call", "status-callback", "calls"}

\* C35: given the same requests, the server of index.js and the server of
\* index-websocket.js hold the same call store, and the response to the request
\* handled last is the same from both.
C35_VariantsAgree ==
    /\ httpOnly.callSessions = callSessions
    /\ lastEvent.op \in SharedOps => httpOnly.response = response

\* C35 witness: an end-call request has been answered by both servers and has
\* torn a stream session down in the WebSocket variant; both stores hold two
\* records, one of them inactive.
C35_Witness ==
    /\ lastEvent.op = "end-call"
    /\ sockets[1].closeCalls = 1
    /\ Len(httpOnly.callSessions) = 2
    /\ ~IsActive(lastEvent.callSid)
    /\ \E c \in CallSids : IsActive(c)
    /\ httpOnly.response = response

====
